---- MODULE Spec2Model ----
(***************************************************************************)
(* A model of MessageAgent (src/messsage_agent.py): the dispatch pipeline  *)
(* of process (preprocessors, ordered rule scan, fallback, postprocessors, *)
(* save), reset_memory, and the built-in intent handlers with their effect *)
(* on the memory store.  Messages are strings; the regular expressions and *)
(* string methods of the source are operators that work character by      *)
(* character.  Times are whole minutes since midnight of day 0.            *)
(***************************************************************************)
EXTENDS Integers, Sequences, FiniteSets, TLC

VARIABLES
    memory,         \* self._memory: the in-memory store, a mapping key -> value
    persisted,      \* what the last _save_memory wrote to memory_path
    preprocessors,  \* self._preprocessors, in registration order
    postprocessors, \* self._postprocessors, in registration order
    handlers,       \* self._handlers: the rules, in registration order
    now,            \* the wall clock, in minutes
    response,       \* what the last call of process returned
    lastCall,       \* a record of the last public call and of what it did
    trail           \* the process calls made since the store was last empty

vars == <<memory, persisted, preprocessors, postprocessors, handlers, now,
          response, lastCall, trail>>

-----------------------------------------------------------------------------
(* Strings.                                                                *)

Ch(s, i) == SubSeq(s, i, i)

UpperAlpha == "ABCDEFGHIJKLMNOPQRSTUVWXYZ"
LowerAlpha == "abcdefghijklmnopqrstuvwxyz"
Digits == "0123456789"

CharsOf(alphabet) == {Ch(alphabet, i) : i \in 1..Len(alphabet)}

IndexIn(c, alphabet) == CHOOSE i \in 1..Len(alphabet) : Ch(alphabet, i) = c

UpperChars == CharsOf(UpperAlpha)
AlphaChars == CharsOf(UpperAlpha) \cup CharsOf(LowerAlpha)
DigitChars == CharsOf(Digits)
WordChars == AlphaChars \cup DigitChars \cup {"_"}

ToLower == [c \in UpperChars |-> Ch(LowerAlpha, IndexIn(c, UpperAlpha))]
DigitValue == [c \in DigitChars |-> IndexIn(c, Digits) - 1]

IsSpace(c) == c \in {" ", "\t", "\n"}

IsDigit(c) == c \in DigitChars

IsAlpha(c) == c \in AlphaChars

\* \w of the re module, on ASCII
IsWordChar(c) == c \in WordChars

LowerCh(c) == IF c \in UpperChars THEN ToLower[c] ELSE c

\* str.lower(), character by character
RECURSIVE LowerFrom(_, _)
LowerFrom(s, i) == IF i > Len(s) THEN "" ELSE LowerCh(Ch(s, i)) \o LowerFrom(s, i + 1)

StartsWith(s, p) == Len(s) >= Len(p) /\ SubSeq(s, 1, Len(p)) = p

\* s[i:] of Python, i counted from 0
From(s, i) == IF i >= Len(s) THEN "" ELSE SubSeq(s, i + 1, Len(s))

MatchAt(s, i, p) == i + Len(p) - 1 <= Len(s) /\ SubSeq(s, i, i + Len(p) - 1) = p

Contains(s, p) == \E i \in 1..(Len(s) + 1) : MatchAt(s, i, p)

RECURSIVE LStrip(_)
LStrip(s) == IF s # "" /\ IsSpace(Head(s)) THEN LStrip(Tail(s)) ELSE s

RECURSIVE RStrip(_)
RStrip(s) ==
    IF s # "" /\ IsSpace(Ch(s, Len(s))) THEN RStrip(SubSeq(s, 1, Len(s) - 1)) ELSE s

Strip(s) == RStrip(LStrip(s))

\* every maximal run of whitespace becomes one space
RECURSIVE CollapseRuns(_)
CollapseRuns(s) ==
    IF s = "" THEN ""
    ELSE IF IsSpace(Head(s)) THEN " " \o CollapseRuns(LStrip(s))
    ELSE Head(s) \o CollapseRuns(Tail(s))

-----------------------------------------------------------------------------
(* The inputs of process, and the texts they become on the way through the *)
(* preprocessors.  What the source computes from a text alone is computed  *)
(* once for each of these texts and then looked up (Memo).                 *)

Messages ==
    {"hi", "well hi and bye", "bye", "what is this", "",
     "note hello world", "note buy eggs", "notes", "  Notes ",
     "task buy milk", "tasks", "done 1", "done 2", "done 0", "done -1", "done 99",
     "done x", "done ", "delete task 1",
     "remind me to call mom in 2 hours", "remind buy milk tomorrow", "reminders"}

Transformed(texts) ==
    texts \cup {Strip(x) : x \in texts} \cup {CollapseRuns(x) : x \in texts}
          \cup {LowerFrom(x, 1) : x \in texts}

\* the reminder commands: with a relative time, with a day word, with a
\* time beyond the calendar's last day, with no time, and with a greeting
\* word in them
ReminderMessages ==
    {"remind me to call mom in 2 hours", "remind buy milk tomorrow",
     "remind pay rent today", "remind in 90 minutes", "remind x in 1 day",
     "remind x in 3000000 days", "remind buy milk", "remind me in 5 mins",
     "remind me to say hi", "reminders"}

\* greetings with and without a name in them, and a command that stores
\* something else
GreetingMessages == {"hi", "hi i'm Bob", "hello im Al", "hey there", "note buy eggs"}

\* lambda m: m + " ", a preprocessor of the caller's
PadText(s) == s \o " "

Texts ==
    Transformed(Transformed(Transformed(
        Messages \cup ReminderMessages \cup GreetingMessages
            \cup {PadText(x) : x \in Transformed(Messages)})))

\* F(v), with v worked out once
Bind(v, F(_)) == CHOOSE r \in {F(x) : x \in {v}} : TRUE

Memo(table, F(_), x) == IF x \in DOMAIN table THEN table[x] ELSE F(x)

LowerOf(s) == LowerFrom(s, 1)

LowerTable == [s \in Texts |-> LowerOf(s)]

\* str.lower()
Lower(s) == Memo(LowerTable, LowerOf, s)

CollapseTable == [s \in Texts |-> CollapseRuns(s)]

\* re.sub(r"\s+", " ", m)
CollapseSpaces(s) == Memo(CollapseTable, CollapseRuns, s)

-----------------------------------------------------------------------------
(* More strings.                                                           *)

\* str.split(): the maximal runs of non-whitespace, in order
RECURSIVE WordEnd(_, _)
WordEnd(s, i) == IF i <= Len(s) /\ ~IsSpace(Ch(s, i)) THEN WordEnd(s, i + 1) ELSE i

RECURSIVE Split(_)
Split(s) ==
    LET t == LStrip(s)
        e == WordEnd(t, 1)
    IN  IF t = "" THEN <<>> ELSE <<SubSeq(t, 1, e - 1)>> \o Split(From(t, e - 1))

\* str.split(" ", 1): at most one cut, at the first space
RECURSIVE FirstSpace(_, _)
FirstSpace(s, i) ==
    IF i > Len(s) THEN 0 ELSE IF Ch(s, i) = " " THEN i ELSE FirstSpace(s, i + 1)

SplitOnce(s) ==
    LET k == FirstSpace(s, 1)
    IN  IF k = 0 THEN <<s>> ELSE <<SubSeq(s, 1, k - 1), From(s, k)>>

\* a \b...\b search for a word that begins and ends with a word character
WordAt(s, i, w) ==
    /\ MatchAt(s, i, w)
    /\ (i = 1 \/ ~IsWordChar(Ch(s, i - 1)))
    /\ (i + Len(w) - 1 = Len(s) \/ ~IsWordChar(Ch(s, i + Len(w))))

HasWord(s, words) ==
    LET low == Lower(s)
    IN  \E w \in words : \E i \in 1..Len(low) : WordAt(low, i, w)

RECURSIVE DigitsValue(_, _)
DigitsValue(s, acc) ==
    IF s = "" THEN acc
    ELSE IF Head(s) = "_" THEN DigitsValue(Tail(s), acc)
    ELSE DigitsValue(Tail(s), 10 * acc + DigitValue[Head(s)])

\* int(s) of Python on a token without whitespace: a sign, then digits that
\* single underscores may separate.  ok = FALSE stands for ValueError.
ParseInt(s) ==
    LET neg  == s # "" /\ Head(s) = "-"
        body == IF s # "" /\ Head(s) \in {"+", "-"} THEN Tail(s) ELSE s
        wellFormed ==
            /\ body # ""
            /\ IsDigit(Head(body))
            /\ IsDigit(Ch(body, Len(body)))
            /\ \A i \in 1..Len(body) : IsDigit(Ch(body, i)) \/ Ch(body, i) = "_"
            /\ ~Contains(body, "__")
    IN  IF wellFormed
        THEN [ok |-> TRUE,
              val |-> IF neg THEN 0 - DigitsValue(body, 0) ELSE DigitsValue(body, 0)]
        ELSE [ok |-> FALSE, val |-> 0]

-----------------------------------------------------------------------------
(* Responses and the memory store.                                         *)

NoKeys == <<>>

\* AgentResponse(text, intent, confidence); confidence in hundredths
AgentResponse(text, intent, confidence) ==
    [text |-> text, intent |-> intent, confidence |-> confidence, metadata |-> NoKeys]

\* dict.get(key, default)
Get(d, key, default) == IF key \in DOMAIN d THEN d[key] ELSE default

\* d[key] = value
Put(d, key, value) == [k \in DOMAIN d \cup {key} |-> IF k = key THEN value ELSE d[k]]

\* d.setdefault(key, value), for its effect on d
SetDefault(d, key, value) == IF key \in DOMAIN d THEN d ELSE Put(d, key, value)

\* what a handler call comes to: it returned resp or it raised, and it left
\* the store as mem
Returned(resp, mem) == [raised |-> FALSE, resp |-> resp, mem |-> mem]

\* what a handler returns that is no AgentResponse (None): it has no
\* metadata, and response.metadata.setdefault raises on it
NotAResponse == [none |-> TRUE]

RECURSIVE JoinLines(_)
JoinLines(lines) ==
    IF lines = <<>> THEN ""
    ELSE IF Len(lines) = 1 THEN lines[1]
    ELSE lines[1] \o "\n" \o JoinLines(Tail(lines))

\* "\n\n".join(blocks)
RECURSIVE JoinBlocks(_)
JoinBlocks(blocks) ==
    IF blocks = <<>> THEN ""
    ELSE IF Len(blocks) = 1 THEN blocks[1]
    ELSE blocks[1] \o "\n\n" \o JoinBlocks(Tail(blocks))

TwoDigits(n) == IF n < 10 THEN "0" \o ToString(n) ELSE ToString(n)

MinutesPerHour == 60
MinutesPerDay == 1440

\* strftime("%I:%M %p") of a time; the date part ("%b %d") is rendered as the
\* day number, the calendar being outside the model
ClockText(t) ==
    LET h  == (t % MinutesPerDay) \div MinutesPerHour
        h12 == IF h % 12 = 0 THEN 12 ELSE h % 12
    IN  TwoDigits(h12) \o ":" \o TwoDigits(t % MinutesPerHour)
            \o (IF h < 12 THEN " AM" ELSE " PM")

DayText(t) == "day " \o ToString(t \div MinutesPerDay)

-----------------------------------------------------------------------------
(* The built-in rules: predicates.                                         *)

\* re.search(r"\b(hi|hello|hey)\b", message, re.IGNORECASE)
HasGreeting(message) == HasWord(message, {"hi", "hello", "hey"})

GreetingTable == [m \in Texts |-> HasGreeting(m)]

is_greeting(message, context) == Memo(GreetingTable, HasGreeting, message)

HasHelpKeyword(message) ==
    LET low == Lower(message)
    IN  \E keyword \in {"help", "what can you do", "commands", "?help"} :
            Contains(low, keyword)

HelpTable == [m \in Texts |-> HasHelpKeyword(m)]

is_help(message, context) == Memo(HelpTable, HasHelpKeyword, message)

\* re.search(r"\b(bye|goodbye|see ya|ttyl)\b", message, re.IGNORECASE)
HasFarewell(message) == HasWord(message, {"bye", "goodbye", "see ya", "ttyl"})

FarewellTable == [m \in Texts |-> HasFarewell(m)]

is_farewell(message, context) == Memo(FarewellTable, HasFarewell, message)

is_echo(message, context) ==
    StartsWith(Lower(message), "/echo ") \/ Lower(message) = "/echo"

is_calc(message, context) == StartsWith(Lower(message), "calc ")

is_age(message, context) == StartsWith(Lower(message), "age ")

is_leap(message, context) == StartsWith(Lower(message), "leap ")

is_reminder(message, context) ==
    StartsWith(Lower(message), "remind") \/ Lower(message) = "reminders"

is_note(message, context) ==
    StartsWith(Lower(message), "note ") \/ Lower(message) = "notes"

is_task(message, context) ==
    \/ StartsWith(Lower(message), "task ")
    \/ Lower(message) = "tasks"
    \/ StartsWith(Lower(message), "done ")
    \/ StartsWith(Lower(message), "delete task ")

is_search(message, context) == StartsWith(Lower(message), "search ")

-----------------------------------------------------------------------------
(* The built-in rules: handlers.  Each takes the message, the context, the *)
(* store as it is, the time and the answer of the external collaborators,  *)
(* and gives the response with the store as the handler leaves it.         *)

RECURSIVE SkipSpaces(_, _)
SkipSpaces(s, i) == IF i <= Len(s) /\ IsSpace(Ch(s, i)) THEN SkipSpaces(s, i + 1) ELSE i

IsNameChar(c) == IsAlpha(c) \/ c \in {"-", "'"}

MaxNameTail == 29

\* how many of the characters from i on are name characters, up to limit
RECURSIVE NameRun(_, _, _)
NameRun(s, i, limit) ==
    IF limit > 0 /\ i <= Len(s) /\ IsNameChar(Ch(s, i))
    THEN 1 + NameRun(s, i + 1, limit - 1)
    ELSE 0

\* i\s*'?m\s+(?P<name>[A-Za-z][A-Za-z\-']{1,29}) matched at position i,
\* ignoring case: the name, or "" when there is no match at i
NameAt(s, i) ==
    LET a == SkipSpaces(s, i + 1)
        b == IF a <= Len(s) /\ Ch(s, a) = "'" THEN a + 1 ELSE a
        c == SkipSpaces(s, b + 1)
        n == NameRun(s, c + 1, MaxNameTail)
    IN  IF /\ i <= Len(s) /\ LowerCh(Ch(s, i)) = "i"
           /\ b <= Len(s) /\ LowerCh(Ch(s, b)) = "m"
           /\ c > b + 1
           /\ c <= Len(s) /\ IsAlpha(Ch(s, c))
           /\ n >= 1
        THEN SubSeq(s, c, c + n)
        ELSE ""

\* re.search: the leftmost match
RECURSIVE ExtractNameFrom(_, _)
ExtractNameFrom(s, i) ==
    IF i > Len(s) THEN ""
    ELSE IF NameAt(s, i) # "" THEN NameAt(s, i)
    ELSE ExtractNameFrom(s, i + 1)

\* handle_greeting, had it looked for a name in every message
handle_greeting_extracts(message, context, mem, t, ext) ==
    LET given     == Get(context, "user_name", "")
        known     == IF given # "" THEN given ELSE Get(mem, "user_name", "")
        extracted == ExtractNameFrom(message, 1)
        user_name == IF extracted # "" THEN extracted ELSE known
        greeting_name == IF user_name # "" THEN ", " \o user_name ELSE ""
    IN  Returned(
            AgentResponse("Hello" \o greeting_name \o "! How can I help you today?",
                          "greet", 95),
            IF extracted # "" THEN Put(mem, "user_name", extracted) ELSE mem)

handle_greeting(message, context, mem, t, ext) ==
    LET given     == Get(context, "user_name", "")
        known     == IF given # "" THEN given ELSE Get(mem, "user_name", "")
        extracted == IF known = "" THEN ExtractNameFrom(message, 1) ELSE ""
        user_name == IF known # "" THEN known ELSE extracted
        greeting_name == IF user_name # "" THEN ", " \o user_name ELSE ""
    IN  Returned(
            AgentResponse("Hello" \o greeting_name \o "! How can I help you today?",
                          "greet", 95),
            IF extracted # "" THEN Put(mem, "user_name", extracted) ELSE mem)

HelpText ==
    "I can:\n- Respond to greetings, goodbyes, and echo text.\n"
    \o "- Calculate math: 'calc 2+2*5'.\n- Tell age: 'age 2000-05-17'.\n"
    \o "- Check leap year: 'leap 2024'.\n\nNEW FEATURES:\n"
    \o "- Reminders: 'remind me to call mom in 2 hours' or 'remind buy milk tomorrow'.\n"
    \o "- Notes: 'note remember password is 1234' or 'notes' to list all.\n"
    \o "- Tasks: 'task buy groceries' or 'tasks' to list, 'done 1' to complete.\n"
    \o "- Search: 'search python tutorials' or 'search weather today'.\n\n"
    \o "Use '/reset' to clear memory."

handle_help(message, context, mem, t, ext) ==
    Returned(AgentResponse(HelpText, "help", 90), mem)

handle_farewell(message, context, mem, t, ext) ==
    Returned(AgentResponse("Goodbye!", "farewell", 90), mem)

handle_echo(message, context, mem, t, ext) ==
    LET parts == SplitOnce(message)
        text_to_echo == IF Len(parts) > 1 THEN parts[2] ELSE ""
    IN  Returned(AgentResponse(text_to_echo, "echo", 99), mem)

\* eval of the expression is the external evaluator: ext.ok says whether it
\* gave a value (ext.text) or failed (ext.text the failure's message)
handle_calc(message, context, mem, t, ext) ==
    IF ext.ok
    THEN Returned(AgentResponse("Result: " \o ext.text, "calc", 95), mem)
    ELSE Returned(AgentResponse("Error in calculation: " \o ext.text, "error", 100), mem)

IsLeapYear(year) == (year % 4 = 0 /\ year % 100 # 0) \/ year % 400 = 0

DaysInMonth(year, month) ==
    IF month = 2 THEN (IF IsLeapYear(year) THEN 29 ELSE 28)
    ELSE IF month \in {4, 6, 9, 11} THEN 30 ELSE 31

AllDigits(s) == s # "" /\ \A i \in 1..Len(s) : IsDigit(Ch(s, i))

\* datetime.strptime(s, "%Y-%m-%d").date(): ok = FALSE stands for ValueError
ParseDate(s) ==
    LET y  == IF Len(s) >= 4 THEN SubSeq(s, 1, 4) ELSE ""
        r  == From(s, 4)
        d1 == IF Len(r) >= 2 /\ IsDigit(Ch(r, 2)) /\ Len(r) >= 3 /\ IsDigit(Ch(r, 3))
              THEN 2 ELSE 1
        m  == IF Len(r) >= 1 + d1 THEN SubSeq(r, 2, 1 + d1) ELSE ""
        q  == From(r, 1 + d1)
        d  == From(q, 1)
        ok == /\ AllDigits(y) /\ DigitsValue(y, 0) >= 1
              /\ r # "" /\ Head(r) = "-"
              /\ AllDigits(m) /\ DigitsValue(m, 0) \in 1..12
              /\ q # "" /\ Head(q) = "-"
              /\ AllDigits(d) /\ Len(d) <= 2
              /\ DigitsValue(d, 0) \in 1..DaysInMonth(DigitsValue(y, 0), DigitsValue(m, 0))
    IN  IF ok
        THEN [ok |-> TRUE, year |-> DigitsValue(y, 0), month |-> DigitsValue(m, 0),
              day |-> DigitsValue(d, 0)]
        ELSE [ok |-> FALSE, year |-> 0, month |-> 0, day |-> 0]

\* date.today() is the external calendar: ext.today
handle_age(message, context, mem, t, ext) ==
    LET dob   == ParseDate(Strip(SplitOnce(message)[2]))
        today == ext.today
        early == \/ today.month < dob.month
                 \/ (today.month = dob.month /\ today.day < dob.day)
        age   == today.year - dob.year - (IF early THEN 1 ELSE 0)
    IN  IF dob.ok
        THEN Returned(AgentResponse("You are " \o ToString(age) \o " years old.",
                                    "age", 95), mem)
        ELSE Returned(AgentResponse("Usage: age YYYY-MM-DD (example: age 2000-05-17)",
                                    "error", 100), mem)

handle_leap(message, context, mem, t, ext) ==
    LET year == ParseInt(Strip(SplitOnce(message)[2]))
    IN  IF year.ok
        THEN Returned(
                AgentResponse(
                    (IF year.val < 0 THEN "-" \o ToString(0 - year.val) ELSE ToString(year.val))
                        \o " is "
                        \o (IF IsLeapYear(year.val) THEN "a leap year" ELSE "not a leap year")
                        \o ".",
                    "leap_year", 95),
                mem)
        ELSE Returned(AgentResponse("Usage: leap YEAR (example: leap 2024)", "error", 100),
                      mem)

-----------------------------------------------------------------------------
(* Reminders.                                                              *)

\* the glyphs of the source's texts, in ASCII
CheckMark == "(v)"
OpenMark == "( )"

RECURSIVE DigitRun(_, _)
DigitRun(s, i) == IF i <= Len(s) /\ IsDigit(Ch(s, i)) THEN 1 + DigitRun(s, i + 1) ELSE 0

\* an alternation (a|b|...) tried at position i: the first alternative that
\* matches there, or "" when none does
RECURSIVE FirstAlt(_, _, _)
FirstAlt(s, i, alts) ==
    IF alts = <<>> THEN ""
    ELSE IF MatchAt(s, i, Head(alts)) THEN Head(alts)
    ELSE FirstAlt(s, i, Tail(alts))

TimeUnits == <<"minute", "minutes", "hour", "hours", "day", "days">>

\* in (\d+) (minute|minutes|hour|hours|day|days) matched at position i of a
\* lower-case s: the length of the match (0 when there is none), the digits
\* and the unit
TimeAt(s, i) ==
    LET n    == DigitRun(s, i + 3)
        u    == i + 3 + n + 1
        unit == FirstAlt(s, u, TimeUnits)
    IN  IF /\ MatchAt(s, i, "in ")
           /\ n >= 1
           /\ MatchAt(s, i + 3 + n, " ")
           /\ unit # ""
        THEN [len |-> 3 + n + 1 + Len(unit), amount |-> SubSeq(s, i + 3, i + 2 + n),
              unit |-> unit]
        ELSE [len |-> 0, amount |-> "", unit |-> ""]

\* re.search: the leftmost match
RECURSIVE TimeSearchFrom(_, _)
TimeSearchFrom(s, i) ==
    IF i > Len(s) THEN TimeAt(s, i)
    ELSE IF TimeAt(s, i).len > 0 THEN TimeAt(s, i)
    ELSE TimeSearchFrom(s, i + 1)

TimeSearchOf(s) == TimeSearchFrom(s, 1)

TimeTable == [s \in Texts |-> TimeSearchOf(s)]

TimeSearch(s) == Memo(TimeTable, TimeSearchOf, s)

WhenAt(s, i) == FirstAlt(s, i, <<"tomorrow", "today">>)

RECURSIVE WhenSearchFrom(_, _)
WhenSearchFrom(s, i) ==
    IF i > Len(s) THEN ""
    ELSE IF WhenAt(s, i) # "" THEN WhenAt(s, i)
    ELSE WhenSearchFrom(s, i + 1)

WhenSearchOf(s) == WhenSearchFrom(s, 1)

WhenTable == [s \in Texts |-> WhenSearchOf(s)]

TimeWord(s) == Memo(WhenTable, WhenSearchOf, s)

\* remind(me)?\s+(to\s+)? matched at position i of a lower-case s: the length
\* of the match, 0 when there is none
LeadInAt(s, i) ==
    LET a == IF MatchAt(s, i + 6, "me") /\ SkipSpaces(s, i + 8) > i + 8
             THEN i + 8 ELSE i + 6
        b == SkipSpaces(s, a)
        c == IF MatchAt(s, b, "to") /\ SkipSpaces(s, b + 2) > b + 2
             THEN SkipSpaces(s, b + 2) ELSE b
    IN  IF MatchAt(s, i, "remind") /\ b > a THEN c - i ELSE 0

\* re.sub(pattern, '', text, flags=re.IGNORECASE) for the three patterns:
\* the text without its matches, found from the left without overlap
\* s is the text and low its lower case, which the patterns are matched on.
RECURSIVE StripLeadInFrom(_, _, _)
StripLeadInFrom(s, low, i) ==
    IF i > Len(s) THEN ""
    ELSE IF LeadInAt(low, i) > 0 THEN StripLeadInFrom(s, low, i + LeadInAt(low, i))
    ELSE Ch(s, i) \o StripLeadInFrom(s, low, i + 1)

StripLeadIn(s) == StripLeadInFrom(s, Lower(s), 1)

RECURSIVE StripTimeFrom(_, _, _)
StripTimeFrom(s, low, i) ==
    IF i > Len(s) THEN ""
    ELSE IF TimeAt(low, i).len > 0 THEN StripTimeFrom(s, low, i + TimeAt(low, i).len)
    ELSE Ch(s, i) \o StripTimeFrom(s, low, i + 1)

StripTime(s) == StripTimeFrom(s, Lower(s), 1)

RECURSIVE StripWhenFrom(_, _, _)
StripWhenFrom(s, low, i) ==
    IF i > Len(s) THEN ""
    ELSE IF WhenAt(low, i) # "" THEN StripWhenFrom(s, low, i + Len(WhenAt(low, i)))
    ELSE Ch(s, i) \o StripWhenFrom(s, low, i + 1)

StripWhen(s) == StripWhenFrom(s, Lower(s), 1)

\* the reminder's text, as handle_reminder extracts it from the message
ExtractReminderText(message) ==
    LET stripped == Strip(StripWhen(StripTime(StripLeadIn(message))))
    IN  IF stripped = "" THEN "Reminder" ELSE stripped

ReminderTextTable == [m \in Texts |-> ExtractReminderText(m)]

ReminderText(message) == Memo(ReminderTextTable, ExtractReminderText, message)

\* the last day datetime can hold (9999-12-31), counted from the day the
\* model's clock starts on (2024-05-16, the date of Externals)
MaxDay == 2913037

NoTime == 0 - 1
OutOfRange == 0 - 2

\* how many minutes one unit of the time expression is
UnitMinutes(unit) ==
    IF Contains(unit, "minute") THEN 1
    ELSE IF Contains(unit, "hour") THEN MinutesPerHour
    ELSE MinutesPerDay

\* the whole days in the amount written by the digits from i on, counted in
\* units of which perDay make a day, by long division: days is the quotient
\* so far (kept at MaxDay + 1 once beyond it) and rest the remainder
RECURSIVE WholeDays(_, _, _, _, _)
WholeDays(digits, i, perDay, days, rest) ==
    IF i > Len(digits) THEN [days |-> days, rest |-> rest]
    ELSE LET n    == rest * 10 + DigitValue[Ch(digits, i)]
             more == days * 10 + n \div perDay
         IN  WholeDays(digits, i + 1, perDay,
                       IF more > MaxDay THEN MaxDay + 1 ELSE more, n % perDay)

\* datetime.now() + timedelta(...) raises OverflowError when the sum lies
\* beyond datetime.max
Overflows(digits, unit, t) ==
    LET per   == UnitMinutes(unit)
        whole == WholeDays(digits, 1, MinutesPerDay \div per, 0, 0)
    IN  t \div MinutesPerDay + whole.days
            + ((t % MinutesPerDay) + whole.rest * per) \div MinutesPerDay > MaxDay

\* DueTime, had "tomorrow" kept the time of day
DueTimeSameHour(msg_lower, t) ==
    LET time_match == TimeSearch(msg_lower)
        when_match == TimeWord(msg_lower)
    IN  IF time_match.len > 0
        THEN (IF Overflows(time_match.amount, time_match.unit, t) THEN OutOfRange
              ELSE t + UnitMinutes(time_match.unit) * DigitsValue(time_match.amount, 0))
        ELSE IF when_match = "tomorrow" THEN t + MinutesPerDay
        ELSE IF when_match = "today" THEN t + MinutesPerHour
        ELSE NoTime

\* the due time in minutes; NoTime when the message holds no time
\* expression, OutOfRange when computing it raises.  Sums that datetime can
\* hold and a count of minutes below 2^31 cannot are not among the inputs.
DueTime(msg_lower, t) ==
    LET time_match == TimeSearch(msg_lower)
        when_match == TimeWord(msg_lower)
    IN  IF time_match.len > 0
        THEN (IF Overflows(time_match.amount, time_match.unit, t) THEN OutOfRange
              ELSE t + UnitMinutes(time_match.unit) * DigitsValue(time_match.amount, 0))
        ELSE IF when_match = "tomorrow"
        THEN ((t + MinutesPerDay) \div MinutesPerDay) * MinutesPerDay + 9 * MinutesPerHour
        ELSE IF when_match = "today" THEN t + MinutesPerHour
        ELSE NoTime

\* _format_time_left(delta): days and hours, hours and minutes, or minutes
FormatTimeLeft(delta) ==
    IF delta >= MinutesPerDay
    THEN ToString(delta \div MinutesPerDay) \o "d "
             \o ToString((delta % MinutesPerDay) \div MinutesPerHour) \o "h"
    ELSE IF delta >= MinutesPerHour
    THEN ToString(delta \div MinutesPerHour) \o "h " \o ToString(delta % MinutesPerHour) \o "m"
    ELSE ToString(delta) \o "m"

RECURSIVE ReminderLines(_, _, _)
ReminderLines(reminders, idx, t) ==
    IF idx > Len(reminders) THEN <<>>
    ELSE LET r      == reminders[idx]
             status == IF r.due_time <= t THEN "DUE"
                       ELSE "in " \o FormatTimeLeft(r.due_time - t)
         IN  <<ToString(idx) \o ". " \o r.text \o " - " \o status>>
                 \o ReminderLines(reminders, idx + 1, t)

ListReminders(mem, t) ==
    LET reminders == Get(mem, "reminders", <<>>)
    IN  IF reminders = <<>>
        THEN Returned(AgentResponse("No reminders set.", "reminder_list", 95), mem)
        ELSE Returned(
                AgentResponse("Your reminders:\n" \o JoinLines(ReminderLines(reminders, 1, t)),
                              "reminder_list", 95),
                mem)

\* SetReminder, had it made the list with setdefault before it looked for
\* the time
SetReminderListFirst(message, mem, t) ==
    LET due_time      == DueTime(Lower(message), t)
        reminder_text == ReminderText(message)
        reminders     == Get(mem, "reminders", <<>>)
        time_str      == ClockText(due_time) \o " on " \o DayText(due_time)
    IN  IF due_time = OutOfRange
        THEN Returned(
                AgentResponse("Error setting reminder: date value out of range",
                              "error", 100),
                SetDefault(mem, "reminders", <<>>))
        ELSE IF due_time = NoTime
        THEN Returned(
                AgentResponse(
                    "Usage: 'remind me to [task] in [X] hours/days' or 'remind [task] tomorrow'",
                    "error", 100),
                SetDefault(mem, "reminders", <<>>))
        ELSE Returned(
                AgentResponse(CheckMark \o " Reminder set: '" \o reminder_text \o "' at "
                                  \o time_str,
                              "reminder_set", 95),
                Put(mem, "reminders",
                    Append(reminders,
                           [text |-> reminder_text, due_time |-> due_time, created |-> t])))

SetReminder(message, mem, t) ==
    LET due_time      == DueTime(Lower(message), t)
        reminder_text == ReminderText(message)
        reminders     == Get(mem, "reminders", <<>>)
        time_str      == ClockText(due_time) \o " on " \o DayText(due_time)
    IN  IF due_time = OutOfRange
        THEN Returned(
                AgentResponse("Error setting reminder: date value out of range",
                              "error", 100),
                mem)
        ELSE IF due_time = NoTime
        THEN Returned(
                AgentResponse(
                    "Usage: 'remind me to [task] in [X] hours/days' or 'remind [task] tomorrow'",
                    "error", 100),
                mem)
        ELSE Returned(
                AgentResponse(CheckMark \o " Reminder set: '" \o reminder_text \o "' at "
                                  \o time_str,
                              "reminder_set", 95),
                Put(mem, "reminders",
                    Append(reminders,
                           [text |-> reminder_text, due_time |-> due_time, created |-> t])))

handle_reminder(message, context, mem, t, ext) ==
    IF Lower(message) = "reminders" THEN ListReminders(mem, t) ELSE SetReminder(message, mem, t)

-----------------------------------------------------------------------------
(* Notes.                                                                  *)

RECURSIVE NoteLines(_, _)
NoteLines(notes, idx) ==
    IF idx > Len(notes) THEN <<>>
    ELSE LET note      == notes[idx]
             timestamp == DayText(note.created) \o ", " \o ClockText(note.created)
         IN  <<ToString(idx) \o ". " \o note.text \o " (" \o timestamp \o ")">>
                 \o NoteLines(notes, idx + 1)

\* ListNotes, had it read the list with setdefault
ListNotesSetDefault(mem) ==
    LET notes == Get(mem, "notes", <<>>)
    IN  IF notes = <<>>
        THEN Returned(AgentResponse("No notes saved.", "note_list", 95),
                      SetDefault(mem, "notes", <<>>))
        ELSE Returned(
                AgentResponse("Your notes:\n" \o JoinLines(NoteLines(notes, 1)),
                              "note_list", 95),
                mem)

ListNotes(mem) ==
    LET notes == Get(mem, "notes", <<>>)
    IN  IF notes = <<>>
        THEN Returned(AgentResponse("No notes saved.", "note_list", 95), mem)
        ELSE Returned(
                AgentResponse("Your notes:\n" \o JoinLines(NoteLines(notes, 1)),
                              "note_list", 95),
                mem)

\* AddNote, had it put the new note first
AddNoteFirst(message, mem, t) ==
    LET note_text == Strip(From(message, 5))
        notes     == Get(mem, "notes", <<>>)
    IN  IF note_text = ""
        THEN Returned(
                AgentResponse("Usage: 'note [your note text]' or 'notes' to list all",
                              "error", 100),
                mem)
        ELSE Returned(
                AgentResponse(CheckMark \o " Note saved: '" \o note_text \o "'",
                              "note_add", 95),
                Put(mem, "notes", <<[text |-> note_text, created |-> t]>> \o notes))

AddNote(message, mem, t) ==
    LET note_text == Strip(From(message, 5))
        notes     == Get(mem, "notes", <<>>)
    IN  IF note_text = ""
        THEN Returned(
                AgentResponse("Usage: 'note [your note text]' or 'notes' to list all",
                              "error", 100),
                mem)
        ELSE Returned(
                AgentResponse(CheckMark \o " Note saved: '" \o note_text \o "'",
                              "note_add", 95),
                Put(mem, "notes", Append(notes, [text |-> note_text, created |-> t])))

handle_note(message, context, mem, t, ext) ==
    IF Lower(message) = "notes" THEN ListNotes(mem) ELSE AddNote(message, mem, t)

-----------------------------------------------------------------------------
(* Tasks.                                                                  *)

\* task.get("completed")
IsCompleted(task) == Get(task, "completed", FALSE)

TaskLine(tasks, idx) ==
    ToString(idx) \o ". "
        \o (IF IsCompleted(tasks[idx]) THEN CheckMark ELSE OpenMark)
        \o " " \o tasks[idx].text

\* TaskLines, had it numbered each task by its place within its group
RECURSIVE TaskLinesByGroup(_, _, _)
TaskLinesByGroup(tasks, idx, flag) ==
    IF idx > Len(tasks) THEN <<>>
    ELSE (IF IsCompleted(tasks[idx]) = flag
          THEN <<ToString(Cardinality({j \in 1..idx : IsCompleted(tasks[j]) = flag}))
                     \o ". " \o (IF flag THEN CheckMark ELSE OpenMark)
                     \o " " \o tasks[idx].text>>
          ELSE <<>>)
             \o TaskLinesByGroup(tasks, idx + 1, flag)

\* the lines of the tasks whose completed flag is flag, in the list's order
RECURSIVE TaskLines(_, _, _)
TaskLines(tasks, idx, flag) ==
    IF idx > Len(tasks) THEN <<>>
    ELSE (IF IsCompleted(tasks[idx]) = flag THEN <<TaskLine(tasks, idx)>> ELSE <<>>)
             \o TaskLines(tasks, idx + 1, flag)

ListTasks(mem) ==
    LET tasks     == Get(mem, "tasks", <<>>)
        pending   == TaskLines(tasks, 1, FALSE)
        completed == TaskLines(tasks, 1, TRUE)
        result    == (IF pending # <<>> THEN <<"Pending:\n" \o JoinLines(pending)>> ELSE <<>>)
                     \o (IF completed # <<>>
                         THEN <<"Completed:\n" \o JoinLines(completed)>> ELSE <<>>)
    IN  IF tasks = <<>>
        THEN Returned(AgentResponse("No tasks found.", "task_list", 95), mem)
        ELSE Returned(
                AgentResponse(IF result # <<>> THEN JoinBlocks(result) ELSE "No tasks found.",
                              "task_list", 95),
                mem)

TaskUsage ==
    AgentResponse("Usage: 'done [task number]' (example: done 1)", "error", 100)

\* Completed, had it stamped the time without setting the flag
CompletedStampOnly(task, t) ==
    [k \in DOMAIN task \cup {"completed_at"} |-> IF k = "completed_at" THEN t ELSE task[k]]

\* Completed, had it switched the flag instead of setting it
CompletedToggled(task, t) ==
    [k \in DOMAIN task \cup {"completed", "completed_at"} |->
        IF k = "completed" THEN ~IsCompleted(task)
        ELSE IF k = "completed_at" THEN t ELSE task[k]]

\* the task marked as done: tasks[n - 1]["completed"] = True, and the stamp
Completed(task, t) ==
    [k \in DOMAIN task \cup {"completed", "completed_at"} |->
        IF k = "completed" THEN TRUE ELSE IF k = "completed_at" THEN t ELSE task[k]]

\* int(message.split()[k - 1]): ok = FALSE stands for ValueError or IndexError
TaskNumber(message, k) ==
    Bind(Split(message), LAMBDA words :
        IF Len(words) >= k THEN ParseInt(words[k]) ELSE [ok |-> FALSE, val |-> 0])

\* CompleteTask, had it indexed the list with n instead of n - 1: the task
\* after the n-th is marked, and for the last n the IndexError gives the usage
CompleteTaskNext(message, mem, t) ==
    LET tasks == Get(mem, "tasks", <<>>)
    IN  Bind(TaskNumber(message, 2), LAMBDA task_num :
            IF ~task_num.ok THEN Returned(TaskUsage, mem)
            ELSE IF 1 <= task_num.val /\ task_num.val = Len(tasks) THEN Returned(TaskUsage, mem)
            ELSE IF 1 <= task_num.val /\ task_num.val < Len(tasks)
            THEN Returned(
                    AgentResponse(CheckMark \o " Task " \o ToString(task_num.val)
                                      \o " marked as done!",
                                  "task_complete", 95),
                    Put(mem, "tasks",
                        [tasks EXCEPT ![task_num.val + 1] =
                                          Completed(tasks[task_num.val + 1], t)]))
            ELSE Returned(
                    AgentResponse("Task " \o ToString(task_num.val) \o " not found.",
                                  "error", 100),
                    mem))

CompleteTask(message, mem, t) ==
    LET tasks == Get(mem, "tasks", <<>>)
    IN  Bind(TaskNumber(message, 2), LAMBDA task_num :
            IF ~task_num.ok THEN Returned(TaskUsage, mem)
            ELSE IF 1 <= task_num.val /\ task_num.val <= Len(tasks)
            THEN Returned(
                    AgentResponse(CheckMark \o " Task " \o ToString(task_num.val)
                                      \o " marked as done!",
                                  "task_complete", 95),
                    Put(mem, "tasks",
                        [tasks EXCEPT ![task_num.val] = Completed(tasks[task_num.val], t)]))
            ELSE Returned(
                    AgentResponse("Task " \o ToString(task_num.val) \o " not found.",
                                  "error", 100),
                    mem))

\* the add path: the text after the token, appended as a pending task
AddTask(message, mem, t) ==
    LET task_text == Strip(From(message, 5))
        tasks     == Get(mem, "tasks", <<>>)
    IN  IF task_text = ""
        THEN Returned(
                AgentResponse("Usage: 'task [description]' or 'tasks' to list all",
                              "error", 100),
                mem)
        ELSE Returned(
                AgentResponse(CheckMark \o " Task added: '" \o task_text \o "'",
                              "task_add", 95),
                Put(mem, "tasks", Append(tasks, [text |-> task_text, completed |-> FALSE])))

RemoveAt(seq, n) == SubSeq(seq, 1, n - 1) \o SubSeq(seq, n + 1, Len(seq))

\* the delete path: the task at the 1-based index is removed, within bounds
DeleteTask(message, mem) ==
    LET tasks == Get(mem, "tasks", <<>>)
    IN  Bind(TaskNumber(message, 3), LAMBDA task_num :
            IF ~task_num.ok
            THEN Returned(
                    AgentResponse("Usage: 'delete task [task number]'", "error", 100), mem)
            ELSE IF 1 <= task_num.val /\ task_num.val <= Len(tasks)
            THEN Returned(
                    AgentResponse(CheckMark \o " Task " \o ToString(task_num.val)
                                      \o " deleted.",
                                  "task_delete", 95),
                    Put(mem, "tasks", RemoveAt(tasks, task_num.val)))
            ELSE Returned(
                    AgentResponse("Task " \o ToString(task_num.val) \o " not found.",
                                  "error", 100),
                    mem))

handle_task(message, context, mem, t, ext) ==
    IF Lower(message) = "tasks" THEN ListTasks(mem)
    ELSE IF StartsWith(Lower(message), "done ") THEN CompleteTask(message, mem, t)
    ELSE IF StartsWith(Lower(message), "delete task ") THEN DeleteTask(message, mem)
    ELSE AddTask(message, mem, t)

-----------------------------------------------------------------------------
(* Search and the fallback.                                                *)

\* the web lookup is the external collaborator: ext.ok, ext.text
handle_search(message, context, mem, t, ext) ==
    IF ext.ok
    THEN Returned(AgentResponse(ext.text, "search", 90), mem)
    ELSE Returned(AgentResponse("Search failed: " \o ext.text, "error", 100), mem)

_fallback_handler(message, context) ==
    AgentResponse("I didn't understand that. Type 'help' to see what I can do.",
                  "fallback", 30)

-----------------------------------------------------------------------------
(* Pluggable parts: what callers register besides the built-in rules.      *)

\* the two preprocessors _install_default_handlers adds
DefaultPreprocessors == <<"strip", "collapse">>

\* preprocessors callers supply: "lower" is lambda m: m.lower(), "pad" is
\* lambda m: m + " ", "reject" raises on every message
CustomPreprocessors == {"lower", "pad", "reject"}

PreprocessorRaises(p, message) == p = "reject"

Preprocessor(p, message) ==
    CASE p = "strip" -> Strip(message)
      [] p = "collapse" -> CollapseSpaces(message)
      [] p = "lower" -> Lower(message)
      [] p = "pad" -> PadText(message)
      [] OTHER -> message

\* postprocessors callers supply: "tag" returns the response with
\* metadata["tagged"] set, "refuse" raises on every response
CustomPostprocessors == {"tag", "refuse"}

PostprocessorRaises(p, resp) == p = "refuse"

Postprocessor(p, resp) ==
    IF p = "tag" THEN [resp EXCEPT !.metadata = Put(@, "tagged", TRUE)] ELSE resp

\* the rules of _install_default_handlers, in the order it registers them
BuiltinRules ==
    <<"greeting", "help", "farewell", "echo", "calc", "age", "leap", "reminder",
      "note", "task", "search">>

\* rules callers register: "always" matches every message and answers with
\* its own original_message stamp; "badPredicate" has a predicate that
\* raises; "badHandler" matches every message, writes the store and raises;
\* "noResponse" (registered in SpecFailing) matches every message, writes
\* the store and returns None
CustomRules == {"always", "badPredicate", "badHandler"}

PredicateRaises(rule, message, context) == rule = "badPredicate"

Predicate(rule, message, context) ==
    CASE rule = "greeting" -> is_greeting(message, context)
      [] rule = "help"     -> is_help(message, context)
      [] rule = "farewell" -> is_farewell(message, context)
      [] rule = "echo"     -> is_echo(message, context)
      [] rule = "calc"     -> is_calc(message, context)
      [] rule = "age"      -> is_age(message, context)
      [] rule = "leap"     -> is_leap(message, context)
      [] rule = "reminder" -> is_reminder(message, context)
      [] rule = "note"     -> is_note(message, context)
      [] rule = "task"     -> is_task(message, context)
      [] rule = "search"   -> is_search(message, context)
      [] OTHER             -> TRUE

Handler(rule, message, context, mem, t, ext) ==
    CASE rule = "greeting" -> handle_greeting(message, context, mem, t, ext)
      [] rule = "help"     -> handle_help(message, context, mem, t, ext)
      [] rule = "farewell" -> handle_farewell(message, context, mem, t, ext)
      [] rule = "echo"     -> handle_echo(message, context, mem, t, ext)
      [] rule = "calc"     -> handle_calc(message, context, mem, t, ext)
      [] rule = "age"      -> handle_age(message, context, mem, t, ext)
      [] rule = "leap"     -> handle_leap(message, context, mem, t, ext)
      [] rule = "reminder" -> handle_reminder(message, context, mem, t, ext)
      [] rule = "note"     -> handle_note(message, context, mem, t, ext)
      [] rule = "task"     -> handle_task(message, context, mem, t, ext)
      [] rule = "search"   -> handle_search(message, context, mem, t, ext)
      [] rule = "always"   ->
            Returned([AgentResponse("custom", "custom", 80)
                          EXCEPT !.metadata = Put(@, "original_message", "(handler's)")],
                     mem)
      [] rule = "noResponse" -> Returned(NotAResponse, Put(mem, "scratch", message))
      [] OTHER ->
            [raised |-> TRUE, resp |-> AgentResponse("", "", 0),
             mem |-> Put(mem, "scratch", message)]

-----------------------------------------------------------------------------
(* process.                                                                *)

\* StageError, had every branch been tagged like the handler's
StageErrorOneTag(text, stage) ==
    [AgentResponse(text, "error", 100) EXCEPT !.metadata = Put(@, "stage", "handler")]

StageError(text, stage) ==
    [AgentResponse(text, "error", 100) EXCEPT !.metadata = Put(@, "stage", stage)]

\* RunPreprocessors, had it gone through the list from its end
RECURSIVE RunPreprocessorsReversed(_, _)
RunPreprocessorsReversed(pres, message) ==
    IF pres = <<>> THEN [failed |-> FALSE, message |-> message]
    ELSE IF PreprocessorRaises(pres[Len(pres)], message)
    THEN [failed |-> TRUE, message |-> message]
    ELSE RunPreprocessorsReversed(SubSeq(pres, 1, Len(pres) - 1),
                                  Preprocessor(pres[Len(pres)], message))

\* the loop over self._preprocessors: the message after them, or failed
RECURSIVE RunPreprocessors(_, _)
RunPreprocessors(pres, message) ==
    IF pres = <<>> THEN [failed |-> FALSE, message |-> message]
    ELSE IF PreprocessorRaises(Head(pres), message)
    THEN [failed |-> TRUE, message |-> message]
    ELSE RunPreprocessors(Tail(pres), Preprocessor(Head(pres), message))

\* response.metadata.setdefault of received_at and original_message
Stamped(resp, original_message, t) ==
    [resp EXCEPT !.metadata =
        SetDefault(SetDefault(@, "received_at", t), "original_message", original_message)]

\* Scan, had it tried the rules from the last registered to the first
RECURSIVE ScanBackwards(_, _, _, _, _, _, _, _)
ScanBackwards(rules, i, message, original_message, context, mem, t, ext) ==
    LET k == Len(rules) + 1 - i
    IN  IF i > Len(rules)
        THEN [kind |-> "fallback", rule |-> 0,
              resp |-> _fallback_handler(message, context), mem |-> mem]
        ELSE IF PredicateRaises(rules[k], message, context)
        THEN [kind |-> "error", rule |-> k,
              resp |-> StageError("Handler error: predicate", "handler"), mem |-> mem]
        ELSE IF Predicate(rules[k], message, context)
        THEN Bind(Handler(rules[k], message, context, mem, t, ext), LAMBDA out :
                 IF out.raised \/ "metadata" \notin DOMAIN out.resp
                 THEN [kind |-> "error", rule |-> k,
                       resp |-> StageError("Handler error: handler", "handler"),
                       mem |-> out.mem]
                 ELSE [kind |-> "handled", rule |-> k,
                       resp |-> Stamped(out.resp, original_message, t), mem |-> out.mem])
        ELSE ScanBackwards(rules, i + 1, message, original_message, context, mem, t, ext)

\* Scan, had it gone on to the next rule when a predicate raises
RECURSIVE ScanPastErrors(_, _, _, _, _, _, _, _)
ScanPastErrors(rules, i, message, original_message, context, mem, t, ext) ==
    IF i > Len(rules)
    THEN [kind |-> "fallback", rule |-> 0, resp |-> _fallback_handler(message, context),
          mem |-> mem]
    ELSE IF /\ ~PredicateRaises(rules[i], message, context)
            /\ Predicate(rules[i], message, context)
    THEN Bind(Handler(rules[i], message, context, mem, t, ext), LAMBDA out :
             IF out.raised \/ "metadata" \notin DOMAIN out.resp
             THEN [kind |-> "error", rule |-> i,
                   resp |-> StageError("Handler error: handler", "handler"),
                   mem |-> out.mem]
             ELSE [kind |-> "handled", rule |-> i,
                   resp |-> Stamped(out.resp, original_message, t), mem |-> out.mem])
    ELSE ScanPastErrors(rules, i + 1, message, original_message, context, mem, t, ext)

\* Scan, had it gone on to the next rule when a handler raises
RECURSIVE ScanPastFailedHandler(_, _, _, _, _, _, _, _)
ScanPastFailedHandler(rules, i, message, original_message, context, mem, t, ext) ==
    IF i > Len(rules)
    THEN [kind |-> "fallback", rule |-> 0, resp |-> _fallback_handler(message, context),
          mem |-> mem]
    ELSE IF PredicateRaises(rules[i], message, context)
    THEN [kind |-> "error", rule |-> i,
          resp |-> StageError("Handler error: predicate", "handler"), mem |-> mem]
    ELSE IF Predicate(rules[i], message, context)
    THEN Bind(Handler(rules[i], message, context, mem, t, ext), LAMBDA out :
             IF out.raised \/ "metadata" \notin DOMAIN out.resp
             THEN ScanPastFailedHandler(rules, i + 1, message, original_message, context,
                                        out.mem, t, ext)
             ELSE [kind |-> "handled", rule |-> i,
                   resp |-> Stamped(out.resp, original_message, t), mem |-> out.mem])
    ELSE ScanPastFailedHandler(rules, i + 1, message, original_message, context, mem, t,
                               ext)

\* Scan, had it put the store back as it was when a handler fails
RECURSIVE ScanRollsBack(_, _, _, _, _, _, _, _)
ScanRollsBack(rules, i, message, original_message, context, mem, t, ext) ==
    IF i > Len(rules)
    THEN [kind |-> "fallback", rule |-> 0, resp |-> _fallback_handler(message, context),
          mem |-> mem]
    ELSE IF PredicateRaises(rules[i], message, context)
    THEN [kind |-> "error", rule |-> i,
          resp |-> StageError("Handler error: predicate", "handler"), mem |-> mem]
    ELSE IF Predicate(rules[i], message, context)
    THEN Bind(Handler(rules[i], message, context, mem, t, ext), LAMBDA out :
             IF out.raised \/ "metadata" \notin DOMAIN out.resp
             THEN [kind |-> "error", rule |-> i,
                   resp |-> StageError("Handler error: handler", "handler"),
                   mem |-> mem]
             ELSE [kind |-> "handled", rule |-> i,
                   resp |-> Stamped(out.resp, original_message, t), mem |-> out.mem])
    ELSE ScanRollsBack(rules, i + 1, message, original_message, context, mem, t, ext)

\* the loop over self._handlers from rule i on, with its else branch: which
\* rule ended the scan (0: none, the fallback ran), how ("handled", "error",
\* "fallback"), the response and the store after it
RECURSIVE Scan(_, _, _, _, _, _, _, _)
Scan(rules, i, message, original_message, context, mem, t, ext) ==
    IF i > Len(rules)
    THEN [kind |-> "fallback", rule |-> 0, resp |-> _fallback_handler(message, context),
          mem |-> mem]
    ELSE IF PredicateRaises(rules[i], message, context)
    THEN [kind |-> "error", rule |-> i,
          resp |-> StageError("Handler error: predicate", "handler"), mem |-> mem]
    ELSE IF Predicate(rules[i], message, context)
    THEN Bind(Handler(rules[i], message, context, mem, t, ext), LAMBDA out :
             IF out.raised \/ "metadata" \notin DOMAIN out.resp
             THEN [kind |-> "error", rule |-> i,
                   resp |-> StageError("Handler error: handler", "handler"),
                   mem |-> out.mem]
             ELSE [kind |-> "handled", rule |-> i,
                   resp |-> Stamped(out.resp, original_message, t), mem |-> out.mem])
    ELSE Scan(rules, i + 1, message, original_message, context, mem, t, ext)

\* the loop over self._postprocessors
RECURSIVE RunPostprocessors(_, _)
RunPostprocessors(posts, resp) ==
    IF posts = <<>> THEN [failed |-> FALSE, resp |-> resp]
    ELSE IF PostprocessorRaises(Head(posts), resp)
    THEN [failed |-> TRUE, resp |-> resp]
    ELSE RunPostprocessors(Tail(posts), Postprocessor(Head(posts), resp))

\* _save_memory: the file is overwritten with the whole store
SaveMemory(mem) == mem

\* FileAfterProcess, had process saved before it ran the postprocessors
FileSavedFirst(postFailed, mem, disk) == mem

\* what the file holds when process returns: process saves on its last line,
\* which a failing postprocessor's return does not reach
FileAfterProcess(postFailed, mem, disk) == IF postFailed THEN disk ELSE SaveMemory(mem)

\* process(message, context) on a given state of the agent: the response it
\* returns, the store and the file after it, and what happened on the way
process(message, context, pres, rules, posts, mem, disk, t, ext) ==
    Bind(RunPreprocessors(pres, message), LAMBDA pre :
        IF pre.failed
        THEN [response |-> StageError("Preprocessor error", "preprocessor"),
              memory |-> mem, persisted |-> disk,
              preFailed |-> TRUE, preprocessed |-> "", kind |-> "none", rule |-> 0,
              postFailed |-> FALSE]
        ELSE
    Bind(Scan(rules, 1, pre.message, message, context, mem, t, ext), LAMBDA scan :
    Bind(RunPostprocessors(posts, scan.resp), LAMBDA post :
             [response |-> IF post.failed
                           THEN StageError("Postprocessor error", "postprocessor")
                           ELSE post.resp,
              memory |-> scan.mem,
              persisted |-> FileAfterProcess(post.failed, scan.mem, disk),
              preFailed |-> FALSE, preprocessed |-> pre.message, kind |-> scan.kind,
              rule |-> scan.rule, postFailed |-> post.failed])))

-----------------------------------------------------------------------------
(* The agent as a state machine.                                           *)

\* bounds of the model
MaxItems == 2           \* entries kept in the store's lists, all lists together
MaxElapsed == 1500      \* minutes the clock may run
MaxRegistered == 2      \* preprocessors, postprocessors and rules of the caller's

StartTime == 10 * MinutesPerHour

TickSteps == {1400}

Contexts == {NoKeys, [user_name |-> "Ann"]}

\* the calls of process: every message without a context, and those the
\* greeting rule takes with a context that names the user too
Calls ==
    {[message |-> m, context |-> NoKeys] : m \in Messages}
        \cup {[message |-> m, context |-> c] :
                  m \in {x \in Messages : HasGreeting(x)}, c \in Contexts}

\* the answers of the external collaborators (evaluator, calendar, search)
Externals ==
    {[ok |-> TRUE, text |-> "12", today |-> [year |-> 2024, month |-> 5, day |-> 16]]}

\* the files _load_memory may find: none, or one an earlier run saved
StoredFiles ==
    {NoKeys,
     [tasks |-> <<[text |-> "water plants", completed |-> FALSE]>>]}

\* the command sequences followed from an empty store
Scenarios ==
    {<<"note hello world", "notes">>, <<"task buy milk", "done 1", "tasks">>}

OffTrail == <<"-">>

IsPrefix(p, q) == Len(p) <= Len(q) /\ SubSeq(q, 1, Len(p)) = p

NextTrail(tr, message, context) ==
    IF /\ tr # OffTrail
       /\ context = NoKeys
       /\ \E sc \in Scenarios : IsPrefix(Append(tr, message), sc)
    THEN Append(tr, message)
    ELSE OffTrail

StoredItems(mem) ==
    Len(Get(mem, "reminders", <<>>)) + Len(Get(mem, "notes", <<>>))
        + Len(Get(mem, "tasks", <<>>))

NoResponse == AgentResponse("", "none", 0)

NoCall ==
    [op |-> "init", prev |-> "none", message |-> "", context |-> NoKeys,
     preFailed |-> FALSE,
     preprocessed |-> "", kind |-> "none", rule |-> 0, postFailed |-> FALSE,
     memBefore |-> NoKeys, diskBefore |-> NoKeys]

\* __init__ with no preprocessors or postprocessors of the caller's
Init ==
    /\ memory \in StoredFiles
    /\ persisted = memory
    /\ preprocessors = DefaultPreprocessors
    /\ postprocessors = <<>>
    /\ handlers = BuiltinRules
    /\ now = StartTime
    /\ response = NoResponse
    /\ lastCall = NoCall
    /\ trail = IF memory = NoKeys THEN <<>> ELSE OffTrail

\* process(message, context)
Process(message, context, ext) ==
    \E out \in {process(message, context, preprocessors, handlers, postprocessors,
                       memory, persisted, now, ext)} :
        /\ StoredItems(out.memory) <= MaxItems
        /\ memory' = out.memory
        /\ persisted' = out.persisted
        /\ response' = out.response
        /\ lastCall' = [op |-> "process", prev |-> lastCall.op, message |-> message,
                        context |-> context,
                        preFailed |-> out.preFailed, preprocessed |-> out.preprocessed,
                        kind |-> out.kind, rule |-> out.rule,
                        postFailed |-> out.postFailed,
                        memBefore |-> memory, diskBefore |-> persisted]
        /\ trail' = NextTrail(trail, message, context)
        /\ UNCHANGED <<preprocessors, postprocessors, handlers, now>>

\* ResetMemory, had it not saved
ResetWithoutSave ==
    /\ memory' = NoKeys
    /\ lastCall' = [NoCall EXCEPT !.op = "reset", !.prev = lastCall.op,
                                  !.memBefore = memory, !.diskBefore = persisted]
    /\ trail' = <<>>
    /\ UNCHANGED <<persisted, preprocessors, postprocessors, handlers, now, response>>

\* reset_memory()
ResetMemory ==
    /\ memory' = NoKeys
    /\ persisted' = SaveMemory(NoKeys)
    /\ lastCall' = [NoCall EXCEPT !.op = "reset", !.prev = lastCall.op,
                                  !.memBefore = memory, !.diskBefore = persisted]
    /\ trail' = <<>>
    /\ UNCHANGED <<preprocessors, postprocessors, handlers, now, response>>

\* time passes between two calls
Tick(d) ==
    /\ now + d <= StartTime + MaxElapsed
    /\ now' = now + d
    /\ UNCHANGED <<memory, persisted, preprocessors, postprocessors, handlers,
                   response, lastCall, trail>>

Next ==
    \/ \E call \in Calls, e \in Externals : Process(call.message, call.context, e)
    \/ ResetMemory
    \/ \E d \in TickSteps : Tick(d)

Spec == Init /\ [][Next]_vars

-----------------------------------------------------------------------------
(* The agent with parts of the caller's: preprocessors given to __init__   *)
(* (they run before the default ones), and preprocessors, postprocessors   *)
(* and rules added afterwards.                                             *)

PluggedMessages ==
    {"what is this", "well hi and bye", "note buy eggs", "notes", "  Notes ", "done "}

Registered ==
    (Len(preprocessors) - Len(DefaultPreprocessors)) + Len(postprocessors)
        + (Len(handlers) - Len(BuiltinRules))

InitPlugged ==
    /\ memory = NoKeys
    /\ persisted = memory
    /\ preprocessors \in {DefaultPreprocessors, <<"lower">> \o DefaultPreprocessors,
                         <<"pad">> \o DefaultPreprocessors}
    /\ postprocessors = <<>>
    /\ handlers = BuiltinRules
    /\ now = StartTime
    /\ response = NoResponse
    /\ lastCall = NoCall
    /\ trail = OffTrail

Registering == [NoCall EXCEPT !.op = "register", !.prev = lastCall.op]

add_preprocessor(p) ==
    /\ Registered < MaxRegistered
    /\ preprocessors' = Append(preprocessors, p)
    /\ lastCall' = Registering
    /\ UNCHANGED <<memory, persisted, postprocessors, handlers, now, response, trail>>

add_postprocessor(p) ==
    /\ Registered < MaxRegistered
    /\ postprocessors' = Append(postprocessors, p)
    /\ lastCall' = Registering
    /\ UNCHANGED <<memory, persisted, preprocessors, handlers, now, response, trail>>

register_handler(rule) ==
    /\ Registered < MaxRegistered
    /\ handlers' = Append(handlers, rule)
    /\ lastCall' = Registering
    /\ UNCHANGED <<memory, persisted, preprocessors, postprocessors, now, response, trail>>

NextPlugged ==
    \/ \E m \in PluggedMessages, e \in Externals : Process(m, NoKeys, e)
    \/ ResetMemory
    \/ \E p \in CustomPreprocessors : add_preprocessor(p)
    \/ \E p \in CustomPostprocessors : add_postprocessor(p)
    \/ \E rule \in CustomRules : register_handler(rule)

SpecPlugged == InitPlugged /\ [][NextPlugged]_vars

-----------------------------------------------------------------------------
(* Properties.                                                             *)

Processed == lastCall.op = "process"

\* the rules whose predicate returns true on the message the last call of
\* process gave them, by their place in the registry
Matching ==
    {i \in 1..Len(handlers) :
        /\ ~PredicateRaises(handlers[i], lastCall.preprocessed, lastCall.context)
        /\ Predicate(handlers[i], lastCall.preprocessed, lastCall.context)}

\* the rules whose predicate raises on it
Raising ==
    {i \in 1..Len(handlers) :
        PredicateRaises(handlers[i], lastCall.preprocessed, lastCall.context)}

\* C1: the handler process runs is that of the first rule, in registration
\* order, whose predicate returns true, whether or not a later rule matches
\* too; a message with both "hi" and "bye" in it is handled by the greeting
\* rule and, no postprocessor failing, answered with intent greet.
FirstMatchWins ==
    (Processed /\ ~lastCall.preFailed) =>
        /\ lastCall.kind = "handled" =>
              /\ lastCall.rule \in Matching
              /\ \A j \in Matching : lastCall.rule <= j
        /\ (HasGreeting(lastCall.preprocessed) /\ HasFarewell(lastCall.preprocessed)) =>
              /\ lastCall.kind = "handled"
              /\ handlers[lastCall.rule] = "greeting"
              /\ ~lastCall.postFailed => response.intent = "greet"

\* a message with "hi" and "bye" was handled while a later rule, and a rule
\* of the caller's after it, matched too
FirstMatchWitness ==
    /\ Processed
    /\ lastCall.kind = "handled"
    /\ HasGreeting(lastCall.preprocessed) /\ HasFarewell(lastCall.preprocessed)
    /\ Cardinality(Matching) >= 3
    /\ response.intent = "greet"

\* C2 as the spec words it: the fallback runs if and only if no registered
\* predicate returns true on the preprocessed message.
FallbackIffNoneTrue ==
    (Processed /\ ~lastCall.preFailed) =>
        (lastCall.kind = "fallback" <=> Matching = {})

\* C2, amended: the fallback runs if and only if every registered predicate
\* returns false on the preprocessed message; a predicate that raises before
\* any returns true ends the scan without the fallback.
FallbackIffAllFalse ==
    (Processed /\ ~lastCall.preFailed) =>
        /\ lastCall.kind = "fallback" <=> (Matching = {} /\ Raising = {})
        /\ lastCall.kind = "fallback" =>
              (~lastCall.postFailed => response.intent = "fallback")
        /\ (Matching = {} /\ Raising # {}) =>
              (lastCall.kind = "error" /\ lastCall.memBefore = memory)

\* the fallback answered a message that no rule matches
FallbackWitness ==
    /\ Processed
    /\ lastCall.kind = "fallback"
    /\ response.intent = "fallback"
    /\ lastCall.message = "done "

\* the failures the parts in place force on a call of process
PreprocessorFails == \E i \in 1..Len(preprocessors) : preprocessors[i] = "reject"

PostprocessorFails == \E i \in 1..Len(postprocessors) : postprocessors[i] = "refuse"

IsStageError(resp, stage) ==
    /\ resp.intent = "error"
    /\ resp.confidence = 100
    /\ "stage" \in DOMAIN resp.metadata
    /\ resp.metadata["stage"] = stage

\* C3: process always returns a response; when a preprocessor fails it is an
\* error response (intent error, confidence 1.0) of stage preprocessor, when
\* a postprocessor fails one of stage postprocessor, and when a predicate or
\* a handler fails and no postprocessor does, one of stage handler.
StageErrors ==
    Processed =>
        /\ response.intent # "none"
        /\ lastCall.preFailed <=> PreprocessorFails
        /\ lastCall.postFailed <=> (~PreprocessorFails /\ PostprocessorFails)
        /\ PreprocessorFails => IsStageError(response, "preprocessor")
        /\ (~PreprocessorFails /\ PostprocessorFails)
              => IsStageError(response, "postprocessor")
        /\ (~PreprocessorFails /\ ~PostprocessorFails /\ lastCall.kind = "error")
              => IsStageError(response, "handler")
        /\ (~PreprocessorFails /\ Raising # {} /\ \A j \in Matching : \E i \in Raising : i < j)
              => lastCall.kind = "error"
        /\ (~PreprocessorFails /\ lastCall.kind = "handled")
              => handlers[lastCall.rule] # "badHandler"

\* a handler raised and then a postprocessor did
StageErrorsWitness ==
    /\ Processed
    /\ lastCall.kind = "error"
    /\ lastCall.postFailed
    /\ handlers[lastCall.rule] = "badHandler"
    /\ IsStageError(response, "postprocessor")

\* C4 as the spec words it: once a handler or the fallback has run, the file
\* holds the store as the handler left it, whatever the postprocessors do.
SavedBeforePostprocessors ==
    (Processed /\ ~lastCall.preFailed) => persisted = memory

\* C4, amended: process saves the store after the postprocessors, and only
\* when all of them succeeded: then the file holds the store as the handler
\* left it; when a postprocessor fails the file is left as it was, while the
\* handler's mutations stay in the in-memory store; when a preprocessor fails
\* neither store nor file changes.
SavedAfterPostprocessors ==
    Processed =>
        /\ (~lastCall.preFailed /\ ~lastCall.postFailed) => persisted = memory
        /\ lastCall.postFailed => persisted = lastCall.diskBefore
        /\ lastCall.preFailed =>
              (persisted = lastCall.diskBefore /\ memory = lastCall.memBefore)

\* a handler changed the store and a postprocessor failed: the file is behind
SavedAfterWitness ==
    /\ Processed
    /\ lastCall.postFailed
    /\ lastCall.kind = "handled"
    /\ memory # lastCall.memBefore
    /\ persisted # memory

\* C5: from an empty store, "note hello world" and then "notes" gives a
\* listing of exactly one entry, which holds "hello world".
NoteRoundTrip ==
    trail = <<"note hello world", "notes">> =>
        /\ response.intent = "note_list"
        /\ Len(Get(memory, "notes", <<>>)) = 1
        /\ StartsWith(response.text, "Your notes:\n1. ")
        /\ Contains(response.text, "hello world")
        /\ ~Contains(response.text, "\n2. ")

\* C6: from an empty store, "task buy milk" creates a task that is not
\* completed, and after "done 1" the listing of "tasks" shows "buy milk"
\* under Completed and not under Pending.
TaskRoundTrip ==
    /\ trail = <<"task buy milk">> =>
          /\ response.intent = "task_add"
          /\ Len(Get(memory, "tasks", <<>>)) = 1
          /\ memory["tasks"][1].text = "buy milk"
          /\ ~IsCompleted(memory["tasks"][1])
    /\ trail = <<"task buy milk", "done 1">> =>
          /\ response.intent = "task_complete"
          /\ Len(Get(memory, "tasks", <<>>)) = 1
          /\ IsCompleted(memory["tasks"][1])
    /\ trail = <<"task buy milk", "done 1", "tasks">> =>
          /\ response.intent = "task_list"
          /\ response.text = "Completed:\n1. " \o CheckMark \o " buy milk"
          /\ ~Contains(response.text, "Pending:")

\* the three commands were given in a row, from an empty store
TaskRoundTripWitness ==
    /\ trail = <<"task buy milk", "done 1", "tasks">>
    /\ Processed
    /\ lastCall.message = "tasks"
    /\ Contains(response.text, "buy milk")

ListingCommands == {"notes", "tasks", "reminders"}

EmptyMessage(command) ==
    CASE command = "notes" -> "No notes saved."
      [] command = "tasks" -> "No tasks found."
      [] command = "reminders" -> "No reminders set."

\* C7: after reset_memory the store and the file are empty, and a listing
\* command that follows it is answered with the empty message.
ResetEmpties ==
    /\ lastCall.op = "reset" => (memory = NoKeys /\ persisted = NoKeys)
    /\ (Processed /\ lastCall.prev = "reset" /\ lastCall.message \in ListingCommands) =>
          /\ response.text = EmptyMessage(lastCall.message)
          /\ memory = NoKeys
          /\ persisted = NoKeys

\* a listing was asked for right after a reset that had entries to clear
ResetEmptiesWitness ==
    /\ Processed
    /\ lastCall.prev = "reset"
    /\ lastCall.message = "reminders"
    /\ response.text = "No reminders set."

\* a reset cleared a store and a file that held entries
ResetClearsWitness ==
    /\ lastCall.op = "reset"
    /\ StoredItems(lastCall.memBefore) = MaxItems
    /\ lastCall.diskBefore # NoKeys
    /\ memory = NoKeys

\* C8: the listing commands leave the store as it is, key for key: a list
\* that is absent is not created.
ListingPure ==
    (Processed /\ Lower(lastCall.preprocessed) \in ListingCommands) =>
        /\ memory = lastCall.memBefore
        /\ response.intent \in {"note_list", "task_list", "reminder_list"}

\* notes were listed while the store held other entries and no notes key
ListingPureWitness ==
    /\ Processed
    /\ lastCall.message = "notes"
    /\ "notes" \notin DOMAIN memory
    /\ memory # NoKeys
    /\ response.text = "No notes saved."

\* C9: "done <n>" with an integer n outside 1..count is answered with a
\* not-found error, and with a non-integer or missing argument with a usage
\* error; the store is unchanged in both cases.
DoneArgumentErrors ==
    (Processed /\ StartsWith(lastCall.message, "done")) =>
        LET task_num == TaskNumber(lastCall.message, 2)
            count    == Len(Get(lastCall.memBefore, "tasks", <<>>))
        IN  IF task_num.ok
            THEN (task_num.val < 1 \/ task_num.val > count) =>
                    /\ response.intent = "error"
                    /\ response.text = "Task " \o ToString(task_num.val) \o " not found."
                    /\ memory = lastCall.memBefore
            ELSE /\ response.intent = "error"
                 /\ response.text = TaskUsage.text
                 /\ memory = lastCall.memBefore

\* C10: "remind me to call mom in 2 hours" stores a reminder whose text is
\* exactly "call mom".
ReminderTextStripped ==
    (Processed /\ lastCall.message = "remind me to call mom in 2 hours") =>
        /\ response.intent = "reminder_set"
        /\ memory["reminders"][Len(memory["reminders"])].text = "call mom"

-----------------------------------------------------------------------------
(* The agent given reminder commands only.                                 *)

NextReminders ==
    \/ \E m \in ReminderMessages, e \in Externals : Process(m, NoKeys, e)
    \/ ResetMemory
    \/ \E d \in TickSteps : Tick(d)

SpecReminders == Init /\ [][NextReminders]_vars

-----------------------------------------------------------------------------
(* Properties of the reminder, note and task commands.                     *)

\* the last call of process was answered by the handler of this rule
HandledBy(rule) ==
    /\ Processed
    /\ lastCall.kind = "handled"
    /\ handlers[lastCall.rule] = rule

RemindersBefore == Get(lastCall.memBefore, "reminders", <<>>)
RemindersAfter == Get(memory, "reminders", <<>>)

\* the clock when the last call was handled, as process stamped it
HandledAt == response.metadata.received_at

\* the reminder commands of the model whose time the calendar can hold, and
\* the one whose time it cannot
TimedInRange ==
    {"remind me to call mom in 2 hours", "remind in 90 minutes", "remind x in 1 day",
     "remind buy milk tomorrow", "remind pay rent today"}

TimedBeyondRange == {"remind x in 3000000 days"}

\* the due time the time expression of each of them stands for at clock T
ExpectedDue(message, T) ==
    CASE message = "remind me to call mom in 2 hours" -> T + 2 * 60
      [] message = "remind in 90 minutes" -> T + 90
      [] message = "remind x in 1 day" -> T + 24 * 60
      [] message = "remind buy milk tomorrow" -> (T \div (24 * 60) + 1) * (24 * 60) + 9 * 60
      [] message = "remind pay rent today" -> T + 60

\* exactly one reminder was appended, due at the expected time, created at T
OneReminderAppended ==
    /\ response.intent = "reminder_set"
    /\ Len(RemindersAfter) = Len(RemindersBefore) + 1
    /\ SubSeq(RemindersAfter, 1, Len(RemindersBefore)) = RemindersBefore
    /\ RemindersAfter[Len(RemindersAfter)].created = HandledAt

\* C11 as the spec words it: at clock T the set path appends exactly one
\* reminder, created at T and due at T plus N minutes, hours or days, at
\* 09:00 of the day after T for "tomorrow", at T plus one hour for "today",
\* whatever N is.
ReminderDueAnyAmount ==
    (HandledBy("reminder") /\ lastCall.message \in TimedInRange \cup TimedBeyondRange) =>
        /\ OneReminderAppended
        /\ lastCall.message \in TimedInRange =>
              RemindersAfter[Len(RemindersAfter)].due_time
                  = ExpectedDue(lastCall.message, HandledAt)

\* C11, amended: that holds when the due time is one the calendar can hold
\* (up to 9999-12-31); when it is not, the response is an error and no
\* reminder is appended.
ReminderDueInRange ==
    /\ (HandledBy("reminder") /\ lastCall.message \in TimedInRange) =>
          /\ OneReminderAppended
          /\ RemindersAfter[Len(RemindersAfter)].due_time
                 = ExpectedDue(lastCall.message, HandledAt)
          /\ memory = Put(lastCall.memBefore, "reminders", RemindersAfter)
    /\ (HandledBy("reminder") /\ lastCall.message \in TimedBeyondRange) =>
          /\ response.intent = "error"
          /\ memory = lastCall.memBefore

\* "tomorrow" was asked for on the clock's second day, after another
\* reminder: the new one is due at 09:00 of the third day
ReminderDueWitness ==
    /\ HandledBy("reminder")
    /\ lastCall.message = "remind buy milk tomorrow"
    /\ HandledAt = StartTime + 1400
    /\ Len(RemindersAfter) = 2
    /\ RemindersAfter[2].due_time = 2 * MinutesPerDay + 9 * MinutesPerHour

ListKeys == {"reminders", "notes", "tasks"}

ListBefore(key) == Get(lastCall.memBefore, key, <<>>)
ListAfter(key) == Get(memory, key, <<>>)

\* new is the entry old, or the task old with its completed flag set
KeptEntry(key, old, new) ==
    \/ new = old
    \/ /\ key = "tasks"
       /\ new.text = old.text
       /\ "completed" \in DOMAIN new
       /\ new.completed = TRUE

\* the list under key is the list it was, entry for entry in the same
\* places, with new entries after them if any
OnlyAppended(key) ==
    /\ Len(ListAfter(key)) >= Len(ListBefore(key))
    /\ \A i \in 1..Len(ListBefore(key)) :
          KeptEntry(key, ListBefore(key)[i], ListAfter(key)[i])

\* the list under key is the list it was without its n-th entry
OneRemoved(key) ==
    /\ Len(ListAfter(key)) = Len(ListBefore(key)) - 1
    /\ \E n \in 1..Len(ListBefore(key)) :
          \A i \in 1..Len(ListAfter(key)) :
              ListAfter(key)[i] = ListBefore(key)[IF i < n THEN i ELSE i + 1]

-----------------------------------------------------------------------------
(* Properties of the stages of process.                                    *)

\* the message after the preprocessors from the i-th on, each given what
\* the one before it returned
RECURSIVE InOrder(_, _, _)
InOrder(pres, i, message) ==
    IF i > Len(pres) THEN message
    ELSE InOrder(pres, i + 1, Preprocessor(pres[i], message))

\* C13: when a preprocessor fails, no rule is tried, the store and the file
\* stay as they were and the response is the error tagged "preprocessor"
\* with confidence 1.0; when none fails, the rules get the message as the
\* preprocessors made it, in registration order, each from the one before.
PreprocessorsInOrder ==
    Processed =>
        IF PreprocessorFails
        THEN /\ lastCall.preFailed
             /\ lastCall.kind = "none"
             /\ lastCall.rule = 0
             /\ memory = lastCall.memBefore
             /\ persisted = lastCall.diskBefore
             /\ IsStageError(response, "preprocessor")
             /\ response.confidence = 100
        ELSE /\ ~lastCall.preFailed
             /\ lastCall.preprocessed = InOrder(preprocessors, 1, lastCall.message)
             /\ (preprocessors = <<"strip", "collapse", "pad">>
                    /\ lastCall.message = "  Notes ") => lastCall.preprocessed = "Notes "
             /\ (preprocessors = <<"pad", "strip", "collapse">>
                    /\ lastCall.message = "  Notes ") => lastCall.preprocessed = "Notes"
             /\ (preprocessors = <<"lower", "strip", "collapse", "pad">>
                    /\ lastCall.message = "  Notes ") => lastCall.preprocessed = "notes "

\* a note command met a failing preprocessor, registered after a note had
\* been stored and saved: the store and the file still hold that one note
PreprocessorsWitness ==
    /\ Processed
    /\ PreprocessorFails
    /\ lastCall.message = "note buy eggs"
    /\ Len(Get(lastCall.memBefore, "notes", <<>>)) = 1
    /\ memory = lastCall.memBefore
    /\ persisted = memory

\* the padding preprocessor ran last, after the default ones, and the rules
\* got the padded text
PaddedLastWitness ==
    /\ Processed
    /\ preprocessors = <<"strip", "collapse", "pad">>
    /\ lastCall.message = "  Notes "
    /\ lastCall.preprocessed = "Notes "
    /\ lastCall.kind = "fallback"

\* C14: a response that comes from a matching handler or from the fallback,
\* no stage failing, carries received_at and, as original_message, the
\* input as it was before the preprocessors, unless the handler set the keys
\* itself; the error responses of the stages carry neither key.
StampedUnlessStageError ==
    Processed =>
        IF lastCall.preFailed \/ lastCall.postFailed \/ lastCall.kind = "error"
        THEN /\ "received_at" \notin DOMAIN response.metadata
             /\ "original_message" \notin DOMAIN response.metadata
        ELSE /\ "received_at" \in DOMAIN response.metadata
             /\ "original_message" \in DOMAIN response.metadata
             /\ \/ response.metadata.original_message = lastCall.message
                \/ /\ lastCall.kind = "handled"
                   /\ handlers[lastCall.rule] = "always"
                   /\ response.metadata.original_message = "(handler's)"

\* the tasks new are the tasks old without one of them
WithoutOne(old, new) ==
    /\ Len(new) = Len(old) - 1
    /\ \E n \in 1..Len(old) :
          \A i \in 1..Len(new) : new[i] = old[IF i < n THEN i ELSE i + 1]

Hits == Matching \cup Raising

FirstHit == CHOOSE i \in Hits : \A j \in Hits : i <= j

\* the first rule whose predicate raises or returns true fails: its
\* predicate raises, or it is the rule whose handler raises
FirstHitFails ==
    /\ Hits # {}
    /\ FirstHit \in Raising \/ handlers[FirstHit] = "badHandler"

\* C16: when a predicate or a handler raises, the scan ends at that rule:
\* no later rule answers or writes the store, the fallback does not run,
\* and the response, if no postprocessor fails, is the error tagged
\* "handler" with confidence 1.0.
ScanStopsAtError ==
    (Processed /\ ~lastCall.preFailed) =>
        /\ lastCall.kind = "error" <=> FirstHitFails
        /\ FirstHitFails =>
              /\ lastCall.rule = FirstHit
              /\ memory = IF FirstHit \in Raising THEN lastCall.memBefore
                          ELSE Put(lastCall.memBefore, "scratch", lastCall.preprocessed)
              /\ ~lastCall.postFailed =>
                    /\ IsStageError(response, "handler")
                    /\ response.confidence = 100
                    /\ response.intent \notin {"fallback", "custom"}

\* a predicate raised while a rule registered after it, which matches every
\* message and writes the store, was left untried
ScanStopsWitness ==
    /\ Processed
    /\ lastCall.kind = "error"
    /\ handlers[lastCall.rule] = "badPredicate"
    /\ lastCall.rule < Len(handlers)
    /\ handlers[Len(handlers)] = "badHandler"
    /\ memory = lastCall.memBefore
    /\ IsStageError(response, "handler")

\* the reminder commands of the model that hold no time expression: none
\* at all, and an abbreviation the pattern does not take
Untimed == {"remind buy milk", "remind me in 5 mins"}

-----------------------------------------------------------------------------
(* The agent given greetings, by callers that name the user and callers    *)
(* that do not, starting from a file that may hold a name.                 *)

GreetingCalls ==
    {[message |-> m, context |-> c] : m \in GreetingMessages, c \in Contexts}

GreetingFiles == StoredFiles \cup {[user_name |-> "Zed"]}

InitGreeting ==
    /\ memory \in GreetingFiles
    /\ persisted = memory
    /\ preprocessors = DefaultPreprocessors
    /\ postprocessors = <<>>
    /\ handlers = BuiltinRules
    /\ now = StartTime
    /\ response = NoResponse
    /\ lastCall = NoCall
    /\ trail = OffTrail

NextGreeting ==
    \/ \E call \in GreetingCalls, e \in Externals : Process(call.message, call.context, e)
    \/ ResetMemory
    \/ \E d \in TickSteps : Tick(d)

SpecGreeting == InitGreeting /\ [][NextGreeting]_vars

\* the name each greeting of the model holds after "i'm" or "im", if any
NameIn(message) ==
    CASE message = "hi i'm Bob" -> "Bob"
      [] message = "hello im Al" -> "Al"
      [] OTHER -> ""

Greeted(name) ==
    response.text
        = (IF name # "" THEN "Hello, " \o name ELSE "Hello") \o "! How can I help you today?"

\* C18: the greeting handler greets by the name the context gives, else by
\* the stored user_name, and leaves the store as it was; with neither, it
\* takes the name the message holds, if any, and stores it as user_name.  A
\* stored user_name is not replaced, and no other key is written.
GreetingName ==
    HandledBy("greeting") =>
        LET given  == Get(lastCall.context, "user_name", "")
            stored == Get(lastCall.memBefore, "user_name", "")
            found  == NameIn(lastCall.message)
        IN  /\ given # "" => (Greeted(given) /\ memory = lastCall.memBefore)
            /\ (given = "" /\ stored # "") =>
                  (Greeted(stored) /\ memory = lastCall.memBefore)
            /\ (given = "" /\ stored = "" /\ found # "") =>
                  (Greeted(found) /\ memory = Put(lastCall.memBefore, "user_name", found))
            /\ (given = "" /\ stored = "" /\ found = "") =>
                  (Greeted("") /\ memory = lastCall.memBefore)
            /\ DOMAIN memory \ {"user_name"} = DOMAIN lastCall.memBefore \ {"user_name"}
            /\ \A key \in DOMAIN memory \ {"user_name"} :
                  memory[key] = lastCall.memBefore[key]

\* a greeting that holds a name came, with no context, to an agent that had
\* stored another name and a note: the stored name was used and kept
GreetingNameWitness ==
    /\ HandledBy("greeting")
    /\ lastCall.message = "hello im Al"
    /\ lastCall.context = NoKeys
    /\ Get(memory, "user_name", "") = "Bob"
    /\ Len(Get(memory, "notes", <<>>)) = 1
    /\ Greeted("Bob")

\* the n of the "done <n>" commands of the model that name a task
DoneNumber(message) ==
    CASE message = "done 1" -> 1
      [] message = "done 2" -> 2
      [] OTHER -> 0

\* C19: "done <n>" with 1 <= n <= count sets completed and stamps
\* completed_at with the current time on the n-th task, and changes nothing
\* else: not that task's text, not another task, not the length or order of
\* the tasks, not the notes, the reminders or the user_name.
DoneChangesOneTask ==
    LET n      == DoneNumber(lastCall.message)
        before == ListBefore("tasks")
        after  == ListAfter("tasks")
    IN  (Processed /\ 1 <= n /\ n <= Len(before)) =>
            /\ response.intent = "task_complete"
            /\ Len(after) = Len(before)
            /\ DOMAIN after[n] = DOMAIN before[n] \cup {"completed", "completed_at"}
            /\ after[n].completed = TRUE
            /\ after[n].completed_at = HandledAt
            /\ \A key \in DOMAIN before[n] \ {"completed", "completed_at"} :
                  after[n][key] = before[n][key]
            /\ \A i \in 1..Len(before) : i # n => after[i] = before[i]
            /\ DOMAIN memory = DOMAIN lastCall.memBefore
            /\ \A key \in DOMAIN memory \ {"tasks"} : memory[key] = lastCall.memBefore[key]

\* the second of two pending tasks was marked as done, a clock tick after
\* the agent started, and the first is pending still
DoneChangesOneTaskWitness ==
    /\ Processed
    /\ lastCall.message = "done 2"
    /\ Len(ListBefore("tasks")) = 2
    /\ ~IsCompleted(ListBefore("tasks")[2])
    /\ IsCompleted(ListAfter("tasks")[2])
    /\ ListAfter("tasks")[2].completed_at = StartTime + 1400
    /\ ~IsCompleted(ListAfter("tasks")[1])

\* where p first occurs in s (0: nowhere)
PositionOf(s, p) ==
    IF Contains(s, p)
    THEN CHOOSE i \in 1..Len(s) : MatchAt(s, i, p) /\ \A j \in 1..(i - 1) : ~MatchAt(s, j, p)
    ELSE 0

\* the line that shows the i-th task: its place in the list, its mark, its
\* text
ShownAs(tasks, i) ==
    ToString(i) \o ". " \o (IF IsCompleted(tasks[i]) THEN CheckMark ELSE OpenMark)
        \o " " \o tasks[i].text

\* C20: "tasks" shows the pending tasks and then the completed ones, each
\* group in the order of the list, every task numbered by its place in the
\* whole list (the n of "done <n>"); with no tasks it says "No tasks found.".
TasksListedByPlace ==
    (Processed /\ lastCall.message = "tasks") =>
        LET tasks     == ListBefore("tasks")
            text      == response.text
            places    == 1..Len(tasks)
            pending   == {i \in places : ~IsCompleted(tasks[i])}
            completed == {i \in places : IsCompleted(tasks[i])}
            at(i)     == PositionOf(text, ShownAs(tasks, i))
        IN  /\ response.intent = "task_list"
            /\ memory = lastCall.memBefore
            /\ tasks = <<>> => text = "No tasks found."
            /\ \A i \in places : at(i) > 0
            /\ pending # {} <=> StartsWith(text, "Pending:\n")
            /\ completed # {} <=> Contains(text, "Completed:\n")
            /\ \A i \in pending : \A j \in completed :
                  at(i) < PositionOf(text, "Completed:\n") /\ PositionOf(text, "Completed:\n") < at(j)
            /\ \A i, j \in pending : i < j => at(i) < at(j)
            /\ \A i, j \in completed : i < j => at(i) < at(j)
            /\ (Len(tasks) = 2 /\ IsCompleted(tasks[1]) /\ ~IsCompleted(tasks[2])) =>
                  text = "Pending:\n2. " \o OpenMark \o " " \o tasks[2].text
                             \o "\n\nCompleted:\n1. " \o CheckMark \o " " \o tasks[1].text

\* the first of two tasks was completed and the second pending: the second
\* is shown first, as number 2
TasksListedWitness ==
    /\ Processed
    /\ lastCall.message = "tasks"
    /\ Len(ListBefore("tasks")) = 2
    /\ IsCompleted(ListBefore("tasks")[1])
    /\ ~IsCompleted(ListBefore("tasks")[2])
    /\ StartsWith(response.text, "Pending:\n2. ")

-----------------------------------------------------------------------------
(* The agent with rules of the caller's whose handlers write the store and *)
(* then fail: one raises, one returns no response.                         *)

NextFailing ==
    \/ \E m \in PluggedMessages, e \in Externals : Process(m, NoKeys, e)
    \/ ResetMemory
    \/ \E p \in CustomPostprocessors : add_postprocessor(p)
    \/ \E rule \in {"badHandler", "noResponse"} : register_handler(rule)

SpecFailing == InitPlugged /\ [][NextFailing]_vars

\* C21: what a handler wrote to the store before it raised, or before it
\* returned something that is no response, stays in the store, and when no
\* postprocessor fails the same call writes it to the file and returns the
\* error tagged "handler".
NoRollback ==
    (Processed /\ lastCall.kind = "error"
        /\ handlers[lastCall.rule] \in {"badHandler", "noResponse"}) =>
        /\ memory = Put(lastCall.memBefore, "scratch", lastCall.preprocessed)
        /\ ~lastCall.postFailed =>
              /\ persisted = memory
              /\ IsStageError(response, "handler")

\* a handler wrote the store and returned None, a postprocessor tagged the
\* error response, and the file holds what the handler wrote, next to the
\* note saved before
NoRollbackWitness ==
    /\ Processed
    /\ lastCall.kind = "error"
    /\ handlers[lastCall.rule] = "noResponse"
    /\ postprocessors = <<"tag">>
    /\ "scratch" \notin DOMAIN lastCall.diskBefore
    /\ Len(Get(lastCall.diskBefore, "notes", <<>>)) = 1
    /\ persisted = Put(lastCall.diskBefore, "scratch", lastCall.preprocessed)
    /\ IsStageError(response, "handler")

====
